---- MODULE Spec2Model ----
(***************************************************************************)
(* Model of bot.py: the BasicBot order facade (place_market_order,         *)
(* place_limit_order, place_stop_limit_order, get_symbol_price), its       *)
(* supervised wrapper _safe_call, the CLI readers and the menu loop of     *)
(* main().  The python-binance Client is the environment: every call of    *)
(* it either returns a response or raises.                                 *)
(*                                                                         *)
(* Strings that the code transforms (symbol, side) are sequences of        *)
(* one-character strings, so that str.upper() and str.strip() are          *)
(* computed.  Decimal inputs are integers counting DecPerFloat-ths of the  *)
(* smallest positive float; floats are integers counting that smallest     *)
(* positive float.                                                         *)
(***************************************************************************)
EXTENDS Integers, Sequences, FiniteSets, TLC

\* ------------------------------------------------------------ bounds
MaxCalls == 2        \* facade calls in one run
MaxFloat == 2        \* largest float a direct caller passes
MaxDec == 5          \* largest Decimal the operator types, in Decimal units
DecPerFloat == 4     \* Decimal units per smallest positive float

\* ------------------------------------------------------------ strings
LowerChars == <<"b", "t", "c", "u", "y", "s", "e", "l", "h", "o", "d">>
UpperChars == <<"B", "T", "C", "U", "Y", "S", "E", "L", "H", "O", "D">>

LowerSet == {LowerChars[i] : i \in 1..Len(LowerChars)}

\* str.upper() on one character: letters are capitalised, the rest is kept
UpperChar(c) ==
    IF c \in LowerSet
    THEN UpperChars[CHOOSE i \in 1..Len(LowerChars) : LowerChars[i] = c]
    ELSE c

\* str.upper()
Upper(s) == [i \in 1..Len(s) |-> UpperChar(s[i])]

RECURSIVE LStrip(_)
LStrip(s) == IF s # <<>> /\ Head(s) = " " THEN LStrip(Tail(s)) ELSE s

RECURSIVE RStrip(_)
RStrip(s) ==
    IF s # <<>> /\ s[Len(s)] = " " THEN RStrip(SubSeq(s, 1, Len(s) - 1)) ELSE s

\* str.strip()
Strip(s) == RStrip(LStrip(s))

BUY == <<"B", "U", "Y">>
SELL == <<"S", "E", "L", "L">>
BTCUSDT == <<"B", "T", "C", "U", "S", "D", "T">>

\* what a caller or the operator may give as symbol and as side
SymbolInputs ==
    { <<>>, <<"B", "t", "c">>, <<" ", "e", "t", "h", " ">> }
SideInputs ==
    { <<"b", "u", "y">>, <<"B", "U", "Y">>, <<"S", "e", "l", "l", " ">>,
      <<"h", "o", "l", "d">> }
TifInputs == {"GTC", "IOC"}

\* ------------------------------------------------------------ numbers
FloatInputs == (0 - 1)..MaxFloat

\* what the operator types at a number prompt: text Decimal() rejects, or a
\* number of Decimal units
DecimalInputs ==
    {[valid |-> FALSE, units |-> 0]}
        \cup {[valid |-> TRUE, units |-> n] : n \in (0 - 1)..MaxDec}

\* float(Decimal): round to the nearest float, ties to even; a positive
\* Decimal below half the smallest positive float becomes 0.0
to_float(d) ==
    LET q == d \div DecPerFloat
        r == d % DecPerFloat
    IN  IF 2 * r < DecPerFloat THEN q
        ELSE IF 2 * r > DecPerFloat THEN q + 1
        ELSE IF q % 2 = 0 THEN q ELSE q + 1

\* ------------------------------------------------------------ session
Responses ==
    { [f \in {} |-> "x"],
      [markPrice |-> "65000.10"],
      [orderId |-> "1", status |-> "NEW"] }
NoResponse == [f \in {} |-> "x"]

SignatureCode == -1022
NotionalCode == -4164
\* the two codes the wrapper knows, and two it does not
ApiCodes == {SignatureCode, NotionalCode, 0 - 1021, 0 - 2019}
VenueMessages == {"Precondition failed."}

\* every outcome of one call of the client: a response, BinanceAPIException
\* with the venue's code, BinanceRequestException, or another Exception
Outcomes ==
    {[kind |-> "ok", code |-> 0, msg |-> "", response |-> r] : r \in Responses}
        \cup {[kind |-> "api", code |-> c, msg |-> m, response |-> NoResponse] :
                c \in ApiCodes, m \in VenueMessages}
        \cup {[kind |-> k, code |-> 0, msg |-> "Connection aborted.", response |-> NoResponse] :
                k \in {"request", "other"}}

None == [some |-> FALSE, value |-> NoResponse]
Some(r) == [some |-> TRUE, value |-> r]

NoDescription == [text |-> "", side |-> <<>>, symbol |-> <<>>]
NoDetail == [f \in {} |-> "x"]

\* ------------------------------------------------------------ state
VARIABLES
    client,     \* BasicBot.client, the session the facade holds
    pc,         \* "menu", "inflight", "returned", "exited" or "crashed"
    call,       \* the facade call in progress or last made: op, caller, args
    req,        \* what _safe_call was given: func, description, params
    outcome,    \* what the client did with the last invocation
    ret,        \* what the facade returned to its caller
    raised,     \* whether an exception left the facade
    trace,      \* log entries, invocations and prints of the current call
    ncalls,     \* facade calls made so far
    nfail,      \* of which failed
    inflight    \* client calls that have not returned yet

vars ==
    <<client, pc, call, req, outcome, ret, raised, trace, ncalls, nfail, inflight>>

\* ------------------------------------------------------------ BasicBot
TestnetURL == "https://testnet.binancefuture.com/fapi"

\* BasicBot.__init__
BasicBot(testnet) ==
    [testnet |-> testnet,
     FUTURES_URL |-> IF testnet THEN TestnetURL ELSE "Client default"]

\* _safe_call up to and including the call of func: the attempt is logged,
\* then func(**params) is called
safe_call_enter_swapped(func, description, params) ==
    << [ev |-> "invoke", by |-> "safe_call", level |-> "", tag |-> func,
        description |-> description, detail |-> params],
       [ev |-> "log", by |-> "safe_call", level |-> "INFO", tag |-> "API Request",
        description |-> description, detail |-> params] >>

safe_call_enter(func, description, params) ==
    << [ev |-> "log", by |-> "safe_call", level |-> "INFO", tag |-> "API Request",
        description |-> description, detail |-> params],
       [ev |-> "invoke", by |-> "safe_call", level |-> "", tag |-> func,
        description |-> description, detail |-> params] >>

\* the except clauses of _safe_call: BinanceAPIException,
\* BinanceRequestException, Exception
caught_no_generic(o) == o.kind \in {"api", "request"}

caught_api_only(o) == o.kind = "api"

caught(o) == o.kind \in {"api", "request", "other"}

\* str(e)
ErrorText(o) == [code |-> o.code, msg |-> o.msg]

\* the logger.error call of the clause that catches the error
error_log(o, description) ==
    [ev |-> "log", by |-> "safe_call", level |-> "ERROR",
     tag |-> CASE o.kind = "api" -> "Binance error during"
               [] o.kind = "request" -> "Binance request error during"
               [] OTHER -> "Unexpected error during",
     description |-> description, detail |-> ErrorText(o)]

Printed(by, tag, description, detail) ==
    [ev |-> "print", by |-> by, level |-> "", tag |-> tag,
     description |-> description, detail |-> detail]

\* the print call of the clause that catches the error
operator_message_no_signature(o, description) ==
    IF o.kind = "api" THEN
        IF o.code = NotionalCode
        THEN Printed("safe_call", "[ERROR] Order notional too small (-4164).",
                   NoDescription, NoDetail)
        ELSE Printed("safe_call", "[ERROR] Binance error during",
                   description, ErrorText(o))
    ELSE IF o.kind = "request" THEN
        Printed("safe_call", "[ERROR] Network/HTTP error during",
              description, ErrorText(o))
    ELSE
        Printed("safe_call", "[ERROR] Unexpected error during",
              description, ErrorText(o))

operator_message_request_as_api(o, description) ==
    IF o.kind = "api" /\ o.code = SignatureCode THEN
        Printed("safe_call", "[ERROR] Invalid signature (-1022).",
              NoDescription, NoDetail)
    ELSE IF o.kind = "api" /\ o.code = NotionalCode THEN
        Printed("safe_call", "[ERROR] Order notional too small (-4164).",
              NoDescription, NoDetail)
    ELSE IF o.kind \in {"api", "request"} THEN
        Printed("safe_call", "[ERROR] Binance error during",
              description, ErrorText(o))
    ELSE
        Printed("safe_call", "[ERROR] Unexpected error during",
              description, ErrorText(o))

operator_message(o, description) ==
    IF o.kind = "api" THEN
        IF o.code = SignatureCode
        THEN Printed("safe_call", "[ERROR] Invalid signature (-1022).",
                   NoDescription, NoDetail)
        ELSE IF o.code = NotionalCode
        THEN Printed("safe_call", "[ERROR] Order notional too small (-4164).",
                   NoDescription, NoDetail)
        ELSE Printed("safe_call", "[ERROR] Binance error during",
                   description, ErrorText(o))
    ELSE IF o.kind = "request" THEN
        Printed("safe_call", "[ERROR] Network/HTTP error during",
              description, ErrorText(o))
    ELSE
        Printed("safe_call", "[ERROR] Unexpected error during",
              description, ErrorText(o))

\* the success path of _safe_call: log the response and return it
success_dropped(o, description) ==
    [raised |-> FALSE, ret |-> None,
     events |-> << [ev |-> "log", by |-> "safe_call", level |-> "INFO",
                    tag |-> "API Response", description |-> description,
                    detail |-> o.response] >>]

success(o, description) ==
    [raised |-> FALSE, ret |-> Some(o.response),
     events |-> << [ev |-> "log", by |-> "safe_call", level |-> "INFO",
                    tag |-> "API Response", description |-> description,
                    detail |-> o.response] >>]

\* _safe_call from the moment func returns or raises
safe_call_exit(o, description) ==
    IF o.kind = "ok" THEN success(o, description)
    ELSE IF caught(o) THEN
        [raised |-> FALSE, ret |-> None,
         events |-> <<error_log(o, description), operator_message(o, description)>>]
    ELSE
        [raised |-> TRUE, ret |-> None, events |-> <<>>]

\* the default of the time_in_force parameter
DefaultTimeInForce == "GTC"

\* a keyword parameter with a default: the caller's value when given
Arg(given, value, default) == IF given THEN value ELSE default

Request(func, description, params) ==
    [func |-> func, description |-> description, params |-> params]

\* BasicBot.place_market_order: what it hands to _safe_call
place_market_order(symbol, side, quantity) ==
    Request("futures_create_order",
            [text |-> "Futures MARKET", side |-> Upper(side), symbol |-> symbol],
            [symbol |-> Upper(symbol), side |-> Upper(side), type |-> "MARKET",
             quantity |-> quantity])

\* BasicBot.place_limit_order
place_limit_order_raw_symbol(symbol, side, quantity, price, time_in_force) ==
    Request("futures_create_order",
            [text |-> "Futures LIMIT", side |-> Upper(side), symbol |-> symbol],
            [symbol |-> symbol, side |-> Upper(side), type |-> "LIMIT",
             timeInForce |-> time_in_force, quantity |-> quantity,
             price |-> price])

place_limit_order_no_tif(symbol, side, quantity, price, time_in_force) ==
    Request("futures_create_order",
            [text |-> "Futures LIMIT", side |-> Upper(side), symbol |-> symbol],
            [symbol |-> Upper(symbol), side |-> Upper(side), type |-> "LIMIT",
             quantity |-> quantity, price |-> price])

place_limit_order(symbol, side, quantity, price, time_in_force) ==
    Request("futures_create_order",
            [text |-> "Futures LIMIT", side |-> Upper(side), symbol |-> symbol],
            [symbol |-> Upper(symbol), side |-> Upper(side), type |-> "LIMIT",
             timeInForce |-> time_in_force, quantity |-> quantity,
             price |-> price])

\* BasicBot.place_stop_limit_order
place_stop_limit_order_swapped(symbol, side, quantity, stop_price, limit_price, time_in_force) ==
    Request("futures_create_order",
            [text |-> "Futures STOP-LIMIT", side |-> Upper(side), symbol |-> symbol],
            [symbol |-> Upper(symbol), side |-> Upper(side), type |-> "STOP",
             timeInForce |-> time_in_force, quantity |-> quantity,
             price |-> stop_price, stopPrice |-> limit_price])

place_stop_limit_order(symbol, side, quantity, stop_price, limit_price, time_in_force) ==
    Request("futures_create_order",
            [text |-> "Futures STOP-LIMIT", side |-> Upper(side), symbol |-> symbol],
            [symbol |-> Upper(symbol), side |-> Upper(side), type |-> "STOP",
             timeInForce |-> time_in_force, quantity |-> quantity,
             price |-> limit_price, stopPrice |-> stop_price])

\* BasicBot.get_symbol_price
get_symbol_price(symbol) ==
    Request("futures_mark_price",
            [text |-> "Get mark price for", side |-> <<>>, symbol |-> symbol],
            [symbol |-> Upper(symbol)])

\* ------------------------------------------------------------ CLI helpers
\* _read_symbol: the stripped, uppercased input, or the default when empty
read_symbol(raw, default) ==
    LET symbol == Upper(Strip(raw)) IN IF symbol # <<>> THEN symbol ELSE default

\* _read_side: the loop ends on the first input that is BUY or SELL once
\* stripped and uppercased, and returns it in that form
read_side_accepts(raw) == Upper(Strip(raw)) \in {BUY, SELL}
read_side(raw) == Upper(Strip(raw))

\* _read_decimal: the loop ends on the first input that Decimal() parses
\* and, with positive set, that is > 0 as a Decimal
read_decimal_accepts(raw, positive) ==
    raw.valid /\ (positive => ~(raw.units <= 0))
read_decimal(raw) == raw.units

\* what _read_decimal("...") can return: the inputs its loop accepts
AcceptedDecimals == {x \in DecimalInputs : read_decimal_accepts(x, TRUE)}
\* what _read_side() can return from
AcceptedSides == {x \in SideInputs : read_side_accepts(x)}

\* print_order_result
print_order_result(response) ==
    IF ~response.some \/ response.value = NoResponse
    THEN Printed("main", "No response (order failed or was not sent).",
                 NoDescription, NoDetail)
    ELSE Printed("main", "=== ORDER RESULT ===", NoDescription, response.value)

\* main, choice 4: what is printed after get_symbol_price
print_price_info(price_info) ==
    IF price_info.some /\ price_info.value # NoResponse
    THEN Printed("main", "Mark price for", NoDescription, price_info.value)
    ELSE Printed("main", "Failed to fetch mark price.", NoDescription, NoDetail)

\* ------------------------------------------------------------ behaviour
NoCall == [op |-> "none", caller |-> "none", args |-> [f \in {} |-> "x"]]
NoRequest == Request("", NoDescription, [f \in {} |-> "x"])
NoOutcome == [kind |-> "none", code |-> 0, msg |-> "", response |-> NoResponse]

\* main up to the menu: the bot is constructed with testnet=True
Init ==
    /\ client = BasicBot(TRUE)
    /\ pc = "menu"
    /\ call = NoCall
    /\ req = NoRequest
    /\ outcome = NoOutcome
    /\ ret = None
    /\ raised = FALSE
    /\ trace = <<>>
    /\ ncalls = 0
    /\ nfail = 0
    /\ inflight = 0

Idle == pc = "menu"

\* the run makes at most MaxCalls facade calls
CanCall == Idle /\ ncalls < MaxCalls

\* a public method is entered: it builds the request and _safe_call logs
\* the attempt and calls the client, which has not answered yet
Dispatch(op, caller, args, r) ==
    /\ pc' = "inflight"
    /\ call' = [op |-> op, caller |-> caller, args |-> args]
    /\ req' = r
    /\ trace' = safe_call_enter(r.func, r.description, r.params)
    /\ inflight' = inflight + 1
    /\ ncalls' = ncalls + 1
    /\ outcome' = NoOutcome
    /\ ret' = None
    /\ raised' = FALSE
    /\ UNCHANGED <<client, nfail>>

\* ---- the facade called by a program other than main
CallMarket ==
    CanCall /\
    \E symbol \in SymbolInputs, side \in SideInputs, quantity \in FloatInputs :
        Dispatch("market", "direct",
                 [symbol |-> symbol, side |-> side, quantity |-> quantity],
                 place_market_order(symbol, side, quantity))

CallLimit ==
    CanCall /\
    \E symbol \in SymbolInputs, side \in SideInputs, quantity \in FloatInputs,
       price \in FloatInputs, given \in BOOLEAN, tif \in TifInputs :
        (given \/ tif = DefaultTimeInForce) /\
        Dispatch("limit", "direct",
                 [symbol |-> symbol, side |-> side, quantity |-> quantity,
                  price |-> price, tif_given |-> given, time_in_force |-> tif],
                 place_limit_order(symbol, side, quantity, price,
                                   Arg(given, tif, DefaultTimeInForce)))

CallStopLimit ==
    CanCall /\
    \E symbol \in SymbolInputs, side \in SideInputs, quantity \in FloatInputs,
       stop_price \in FloatInputs, limit_price \in FloatInputs,
       given \in BOOLEAN, tif \in TifInputs :
        (given \/ tif = DefaultTimeInForce) /\
        Dispatch("stop", "direct",
                 [symbol |-> symbol, side |-> side, quantity |-> quantity,
                  stop_price |-> stop_price, limit_price |-> limit_price,
                  tif_given |-> given, time_in_force |-> tif],
                 place_stop_limit_order(symbol, side, quantity, stop_price,
                                        limit_price,
                                        Arg(given, tif, DefaultTimeInForce)))

CallPrice ==
    CanCall /\
    \E symbol \in SymbolInputs :
        Dispatch("price", "direct", [symbol |-> symbol], get_symbol_price(symbol))

\* ---- main: one menu choice, from the prompts to the facade call; typed
\* keeps the Decimals the operator entered
MenuMarket ==
    CanCall /\
    \E raw_symbol \in SymbolInputs, raw_side \in AcceptedSides,
       raw_qty \in AcceptedDecimals :
        LET symbol == read_symbol(raw_symbol, BTCUSDT)
            side == read_side(raw_side)
            qty == to_float(read_decimal(raw_qty))
        IN  Dispatch("market", "main",
                     [symbol |-> symbol, side |-> side, quantity |-> qty,
                      typed |-> [quantity |-> read_decimal(raw_qty)]],
                     place_market_order(symbol, side, qty))

MenuLimit ==
    CanCall /\
    \E raw_symbol \in SymbolInputs, raw_side \in AcceptedSides,
       raw_qty \in AcceptedDecimals, raw_price \in AcceptedDecimals :
        LET symbol == read_symbol(raw_symbol, BTCUSDT)
            side == read_side(raw_side)
            qty == to_float(read_decimal(raw_qty))
            price == to_float(read_decimal(raw_price))
        IN  Dispatch("limit", "main",
                     [symbol |-> symbol, side |-> side, quantity |-> qty,
                      price |-> price, tif_given |-> FALSE,
                      time_in_force |-> DefaultTimeInForce,
                      typed |-> [quantity |-> read_decimal(raw_qty),
                                 price |-> read_decimal(raw_price)]],
                     place_limit_order(symbol, side, qty, price,
                                       Arg(FALSE, "", DefaultTimeInForce)))

MenuStopLimit ==
    CanCall /\
    \E raw_symbol \in SymbolInputs, raw_side \in AcceptedSides,
       raw_qty \in AcceptedDecimals, raw_stop \in AcceptedDecimals,
       raw_limit \in AcceptedDecimals :
        LET symbol == read_symbol(raw_symbol, BTCUSDT)
            side == read_side(raw_side)
            qty == to_float(read_decimal(raw_qty))
            stop_price == to_float(read_decimal(raw_stop))
            limit_price == to_float(read_decimal(raw_limit))
        IN  Dispatch("stop", "main",
                     [symbol |-> symbol, side |-> side, quantity |-> qty,
                      stop_price |-> stop_price, limit_price |-> limit_price,
                      tif_given |-> FALSE, time_in_force |-> DefaultTimeInForce,
                      typed |-> [quantity |-> read_decimal(raw_qty),
                                 stop_price |-> read_decimal(raw_stop),
                                 limit_price |-> read_decimal(raw_limit)]],
                     place_stop_limit_order(symbol, side, qty, stop_price,
                                            limit_price,
                                            Arg(FALSE, "", DefaultTimeInForce)))

MenuPrice ==
    CanCall /\
    \E raw_symbol \in SymbolInputs :
        LET symbol == read_symbol(raw_symbol, BTCUSDT)
        IN  Dispatch("price", "main", [symbol |-> symbol], get_symbol_price(symbol))

\* any other choice
MenuInvalid ==
    /\ Idle
    /\ pc' = "menu"
    /\ trace' = <<Printed("main", "Invalid choice, please try again.",
                          NoDescription, NoDetail)>>
    /\ UNCHANGED <<client, call, req, outcome, ret, raised, ncalls, nfail, inflight>>

\* choice 0
MenuExit ==
    /\ Idle
    /\ pc' = "exited"
    /\ trace' = <<Printed("main", "Exiting. Bye!", NoDescription, NoDetail)>>
    /\ UNCHANGED <<client, call, req, outcome, ret, raised, ncalls, nfail, inflight>>

\* what main does with the value the facade returned
AfterCall(c, r) ==
    IF c.caller # "main" THEN <<>>
    ELSE IF c.op = "price" THEN <<print_price_info(r)>>
    ELSE <<print_order_result(r)>>

\* the client answers: _safe_call finishes and the caller goes on
Complete(o) ==
    /\ pc = "inflight"
    /\ LET r == safe_call_exit(o, req.description) IN
        /\ outcome' = o
        /\ ret' = r.ret
        /\ raised' = r.raised
        /\ trace' = trace
                \o << [ev |-> IF o.kind = "ok" THEN "return" ELSE "raise",
                       by |-> "client", level |-> "", tag |-> req.func,
                       description |-> NoDescription, detail |-> NoDetail] >>
                \o r.events
                \o (IF r.raised THEN <<>> ELSE AfterCall(call, r.ret))
        /\ pc' = IF r.raised THEN "crashed" ELSE "returned"
    /\ inflight' = inflight - 1
    /\ nfail' = IF o.kind = "ok" THEN nfail ELSE nfail + 1
    /\ UNCHANGED <<client, call, req, ncalls>>

\* the caller is done with the returned value: main is back at the top of
\* its loop, and nothing of the finished call is kept
NextPrompt ==
    /\ pc = "returned"
    /\ pc' = "menu"
    /\ call' = NoCall
    /\ req' = NoRequest
    /\ outcome' = NoOutcome
    /\ ret' = None
    /\ trace' = <<>>
    /\ UNCHANGED <<client, raised, ncalls, nfail, inflight>>

ClientReturns == \E o \in {x \in Outcomes : x.kind = "ok"} : Complete(o)

ClientRaises == \E o \in {x \in Outcomes : x.kind # "ok"} : Complete(o)

Next ==
    \/ CallMarket
    \/ CallLimit
    \/ CallStopLimit
    \/ CallPrice
    \/ MenuMarket
    \/ MenuLimit
    \/ MenuStopLimit
    \/ MenuPrice
    \/ MenuInvalid
    \/ MenuExit
    \/ ClientReturns
    \/ ClientRaises
    \/ NextPrompt

Spec == Init /\ [][Next]_vars

\* ------------------------------------------------------------ observations
Dispatched == pc \in {"inflight", "returned"}
Returned == pc = "returned"
Failed == Returned /\ outcome.kind # "ok"

EventsOf(ev) == SelectSeq(trace, LAMBDA e : e.ev = ev)
ErrorLogs == SelectSeq(trace, LAMBDA e : e.ev = "log" /\ e.level = "ERROR")
FacadePrints == SelectSeq(trace, LAMBDA e : e.ev = "print" /\ e.by = "safe_call")
IndexOf(ev) == {i \in 1..Len(trace) : trace[i].ev = ev}
AttemptLogs ==
    {i \in 1..Len(trace) : trace[i].ev = "log" /\ trace[i].tag = "API Request"}
OutcomeLogs ==
    {i \in 1..Len(trace) :
        trace[i].ev = "log" /\ trace[i].by = "safe_call"
            /\ trace[i].tag # "API Request"}

\* the parameters the client was called with
Handed == EventsOf("invoke")[1].detail

\* u is the uppercase form of x
IsUpperOf(u, x) ==
    /\ Len(u) = Len(x)
    /\ \A i \in 1..Len(x) :
        /\ u[i] \notin LowerSet
        /\ x[i] \notin LowerSet => u[i] = x[i]
        /\ x[i] \in LowerSet =>
              \E k \in 1..Len(LowerChars) :
                  LowerChars[k] = x[i] /\ UpperChars[k] = u[i]

HasLower(x) == \E i \in 1..Len(x) : x[i] \in LowerSet

\* ------------------------------------------------------------ claims

\* C1: whatever the client does with the call (a response, an API error with
\* any code, a request error, any other Exception), no exception leaves the
\* facade: the call ends having returned the client's response or None.
C1_NeverPropagates ==
    /\ pc # "crashed"
    /\ raised = FALSE
    /\ Returned => ret \in {None, Some(outcome.response)}
    /\ Returned /\ outcome.kind # "ok" => ret = None

C1_Witness ==
    /\ Returned
    /\ outcome.kind = "other"
    /\ ret = None
    /\ call.op = "stop"

\* C2: when the client fails a call with the signature error (-1022), the
\* facade operation returns None, logs exactly one entry at error severity
\* and prints exactly one message, the invalid-signature one.
IsAuthenticationError(o) == o.kind = "api" /\ o.code = SignatureCode

C2_AuthFailure ==
    Returned /\ IsAuthenticationError(outcome) =>
        /\ ret = None
        /\ Len(ErrorLogs) = 1
        /\ Len(FacadePrints) = 1
        /\ FacadePrints[1].tag = "[ERROR] Invalid signature (-1022)."

C2_Witness ==
    /\ Returned
    /\ IsAuthenticationError(outcome)
    /\ call.op = "price"
    /\ Len(FacadePrints) = 1

\* C3: the message printed on failure is selected by the error class and the
\* venue code: -4164 the notional text, -1022 the signature text, any other
\* code the generic text with the description and the venue message, a
\* request error the network text, anything else the unexpected-error text;
\* errors of different classes never get the same text.
ExpectedCategory(o) ==
    CASE o.kind = "api" /\ o.code = NotionalCode ->
            "[ERROR] Order notional too small (-4164)."
      [] o.kind = "api" /\ o.code = SignatureCode ->
            "[ERROR] Invalid signature (-1022)."
      [] o.kind = "api" /\ o.code \notin {NotionalCode, SignatureCode} ->
            "[ERROR] Binance error during"
      [] o.kind = "request" -> "[ERROR] Network/HTTP error during"
      [] OTHER -> "[ERROR] Unexpected error during"

C3_MessageByClassAndCode ==
    Failed =>
        /\ Len(FacadePrints) = 1
        /\ FacadePrints[1].tag = ExpectedCategory(outcome)
        /\ (outcome.kind = "api" /\ outcome.code \notin {NotionalCode, SignatureCode}
              => /\ FacadePrints[1].description = req.description
                 /\ FacadePrints[1].detail.msg = outcome.msg
                 /\ FacadePrints[1].detail.code = outcome.code)
        /\ \A o \in Outcomes :
              o.kind \notin {"ok", outcome.kind} =>
                  operator_message(o, req.description).tag # FacadePrints[1].tag

C3_Witness ==
    /\ Failed
    /\ outcome.kind = "request"
    /\ FacadePrints[1].tag = "[ERROR] Network/HTTP error during"

\* C4: the symbol, and for the three order operations the side, that the
\* client receives are the uppercase forms of what the caller gave.
C4_Uppercase ==
    Dispatched =>
        /\ IsUpperOf(Handed.symbol, call.args.symbol)
        /\ call.op # "price" => IsUpperOf(Handed.side, call.args.side)

C4_Witness ==
    /\ Dispatched
    /\ call.op = "limit"
    /\ HasLower(call.args.symbol)
    /\ HasLower(call.args.side)
    /\ ~HasLower(Handed.symbol)

\* C5: a stop-limit order reaches the client with type STOP, the limit price
\* in price and the stop price in stopPrice; from the menu, the price typed
\* at the stop prompt is the one in stopPrice.
C5_StopLimitFields ==
    Dispatched /\ call.op = "stop" =>
        /\ Handed.type = "STOP"
        /\ Handed.price = call.args.limit_price
        /\ Handed.stopPrice = call.args.stop_price
        /\ call.caller = "main" =>
              /\ Handed.stopPrice = to_float(call.args.typed.stop_price)
              /\ Handed.price = to_float(call.args.typed.limit_price)

C5_Witness ==
    /\ Dispatched
    /\ call.op = "stop"
    /\ call.args.stop_price > call.args.limit_price
    /\ Handed.stopPrice > Handed.price

\* C6: a market order reaches the client with exactly symbol, side,
\* type=MARKET and quantity; a limit order with exactly symbol, side,
\* type=LIMIT, quantity, price and timeInForce, which is GTC when the caller
\* gave none; quantity and price are the caller's values.
C6_ParameterSets ==
    /\ Dispatched /\ call.op = "market" =>
          /\ DOMAIN Handed = {"symbol", "side", "type", "quantity"}
          /\ Handed.type = "MARKET"
          /\ Handed.quantity = call.args.quantity
    /\ Dispatched /\ call.op = "limit" =>
          /\ DOMAIN Handed =
                {"symbol", "side", "type", "quantity", "price", "timeInForce"}
          /\ Handed.type = "LIMIT"
          /\ Handed.quantity = call.args.quantity
          /\ Handed.price = call.args.price
          /\ Handed.timeInForce =
                IF call.args.tif_given THEN call.args.time_in_force ELSE "GTC"

C6_Witness ==
    /\ Dispatched
    /\ call.op = "limit"
    /\ ~call.args.tif_given
    /\ Handed.timeInForce = "GTC"

\* C7: when the client returns a response, the facade returns that response
\* unchanged.
C7_PassThrough ==
    Returned /\ outcome.kind = "ok" =>
        /\ ret.some
        /\ DOMAIN ret.value = DOMAIN outcome.response
        /\ \A f \in DOMAIN outcome.response : ret.value[f] = outcome.response[f]

C7_Witness ==
    /\ Returned
    /\ outcome.kind = "ok"
    /\ call.op = "price"
    /\ ret = Some([markPrice |-> "65000.10"])

\* C8: a failed call ends neither the run nor the session: the facade keeps
\* its client, every call returns to its caller, and a call the client
\* answers returns that answer however many calls failed before.
C8_StepOk ==
    /\ client' = client
    /\ pc = "inflight" /\ pc' # "inflight" =>
          /\ pc' = "returned"
          /\ outcome'.kind = "ok" => ret' = Some(outcome'.response)

C8_FailuresDoNotCorrupt == [][C8_StepOk]_vars

C8_Witness ==
    /\ nfail > 0
    /\ Returned
    /\ outcome.kind = "ok"
    /\ ret = Some(outcome.response)

\* C9: every order request that reaches the client has quantity > 0, price
\* and stopPrice > 0 when present, side BUY or SELL and a non-empty symbol.
C9_OrderRequestInvariant ==
    Dispatched /\ call.op # "price" =>
        /\ Handed.quantity > 0
        /\ "price" \in DOMAIN Handed => Handed.price > 0
        /\ "stopPrice" \in DOMAIN Handed => Handed.stopPrice > 0
        /\ Handed.side \in {BUY, SELL}
        /\ Handed.symbol # <<>>

\* C10: a facade call calls the client exactly once, after logging the
\* attempt and before logging the outcome, and at most one client call is
\* outstanding at any time.
C10_OneInvocation ==
    /\ inflight \in {0, 1}
    /\ inflight = 1 <=> pc = "inflight"
    /\ Dispatched =>
          /\ Cardinality(IndexOf("invoke")) = 1
          /\ Cardinality(AttemptLogs) = 1
          /\ \A i \in AttemptLogs, j \in IndexOf("invoke") : i < j
    /\ Returned =>
          /\ Cardinality(OutcomeLogs) = 1
          /\ Cardinality(IndexOf("return") \cup IndexOf("raise")) = 1
          /\ \A i \in IndexOf("invoke"), j \in IndexOf("return") \cup IndexOf("raise"),
                k \in OutcomeLogs : i < j /\ j < k

C10_Witness ==
    /\ Returned
    /\ ncalls = MaxCalls
    /\ outcome.kind = "request"
    /\ Cardinality(IndexOf("invoke")) = 1

====
